---- MODULE Spec2Model ----
(***************************************************************************)
(* Model of pump_fun_mc.py: PumpFunMarketCap.  The bonding-curve account   *)
(* is parsed with the construct layout of __init__, and get_market_cap     *)
(* turns the virtual reserves into a price and a market cap with Python    *)
(* int and float arithmetic.                                               *)
(*                                                                         *)
(* Python ints are unbounded and Python floats are IEEE-754 binary64, so   *)
(* naturals are kept as little-endian sequences of 15-bit limbs and floats *)
(* as a 53-bit mantissa with a binary exponent, rounded to nearest, ties   *)
(* to even.                                                                *)
(***************************************************************************)
EXTENDS Integers, Sequences, FiniteSets, TLC

(***************************************************************************)
(* Unbounded naturals (Python int): <<>> is 0, no leading zero limb.       *)
(***************************************************************************)
Base == 2^15

RECURSIVE Norm(_)
Norm(s) ==
    IF s = <<>> THEN <<>>
    ELSE IF s[Len(s)] = 0 THEN Norm(SubSeq(s, 1, Len(s) - 1))
    ELSE s

RECURSIVE NatOf(_)
NatOf(n) == IF n = 0 THEN <<>> ELSE <<n % Base>> \o NatOf(n \div Base)

Limb(a, i) == IF i <= Len(a) THEN a[i] ELSE 0

Max(x, y) == IF x >= y THEN x ELSE y

RECURSIVE AddFrom(_, _, _, _)
AddFrom(a, b, i, carry) ==
    IF i > Max(Len(a), Len(b))
    THEN (IF carry = 0 THEN <<>> ELSE <<carry>>)
    ELSE LET t == Limb(a, i) + Limb(b, i) + carry
         IN  <<t % Base>> \o AddFrom(a, b, i + 1, t \div Base)

NatAdd(a, b) == AddFrom(a, b, 1, 0)

RECURSIVE CmpFrom(_, _, _)
CmpFrom(a, b, i) ==
    IF i = 0 THEN 0
    ELSE IF a[i] < b[i] THEN -1
    ELSE IF a[i] > b[i] THEN 1
    ELSE CmpFrom(a, b, i - 1)

\* -1, 0 or 1 as a < b, a = b, a > b
NatCmp(a, b) ==
    IF Len(a) < Len(b) THEN -1
    ELSE IF Len(a) > Len(b) THEN 1
    ELSE CmpFrom(a, b, Len(a))

RECURSIVE SubFrom(_, _, _, _)
SubFrom(a, b, i, borrow) ==
    IF i > Len(a) THEN <<>>
    ELSE LET t == a[i] - Limb(b, i) - borrow
         IN  IF t < 0 THEN <<t + Base>> \o SubFrom(a, b, i + 1, 1)
             ELSE <<t>> \o SubFrom(a, b, i + 1, 0)

\* a - b for a >= b
NatSub(a, b) == Norm(SubFrom(a, b, 1, 0))

RECURSIVE MulSmallFrom(_, _, _, _)
MulSmallFrom(a, k, i, carry) ==
    IF i > Len(a)
    THEN (IF carry = 0 THEN <<>> ELSE <<carry>>)
    ELSE LET t == a[i] * k + carry
         IN  <<t % Base>> \o MulSmallFrom(a, k, i + 1, t \div Base)

\* a * k for 0 <= k < Base
NatMulSmall(a, k) == IF k = 0 THEN <<>> ELSE MulSmallFrom(a, k, 1, 0)

Zeros(n) == [i \in 1..n |-> 0]

RECURSIVE MulFrom(_, _, _)
MulFrom(a, b, j) ==
    IF j > Len(b) THEN <<>>
    ELSE NatAdd(Norm(Zeros(j - 1) \o NatMulSmall(a, b[j])), MulFrom(a, b, j + 1))

NatMul(a, b) == IF a = <<>> \/ b = <<>> THEN <<>> ELSE MulFrom(a, b, 1)

\* 10 ** n
RECURSIVE Pow10(_)
Pow10(n) == IF n = 0 THEN <<1>> ELSE NatMulSmall(Pow10(n - 1), 10)

RECURSIVE SmallBits(_)
SmallBits(n) == IF n = 0 THEN 0 ELSE 1 + SmallBits(n \div 2)

\* int.bit_length()
BitLen(a) == IF a = <<>> THEN 0 ELSE 15 * (Len(a) - 1) + SmallBits(a[Len(a)])

\* a * 2^k
NatShl(a, k) ==
    IF a = <<>> THEN <<>>
    ELSE Zeros(k \div 15) \o NatMulSmall(a, 2^(k % 15))

\* a \div 2^k
NatShr(a, k) ==
    LET q == k \div 15
        r == k % 15
    IN  IF q >= Len(a) THEN <<>>
        ELSE Norm([i \in 1..(Len(a) - q) |->
                     (a[i + q] \div 2^r) + (Limb(a, i + q + 1) % 2^r) * 2^(15 - r)])

NatOdd(a) == a # <<>> /\ a[1] % 2 = 1

\* Raises the digit g while the remainder r still holds d: <<digit, remainder>>.
RECURSIVE FixDigit(_, _, _)
FixDigit(g, r, d) ==
    IF NatCmp(r, d) >= 0 THEN FixDigit(g + 1, NatSub(r, d), d) ELSE <<g, r>>

\* <<r \div d, r % d>> for r < d * Base and a top limb of d of 15 bits: the
\* digit is estimated from the top limbs, never too high, and raised.
QuotDigit(r, d) ==
    LET n   == Len(d)
        top == Limb(r, n + 1) * Base + Limb(r, n)
        g   == top \div (d[n] + 1)
    IN  FixDigit(g, NatSub(r, NatMulSmall(d, g)), d)

\* Long division, one limb of a at a time from the top; st is
\* <<quotient, remainder>> so far.  (The test of the digit is always true:
\* it makes TLC work out a limb before it goes on to the next.)
RECURSIVE DivFrom(_, _, _, _)
DivFrom(a, d, i, st) ==
    IF i = 0 THEN <<Norm(st[1]), st[2]>>
    ELSE LET gr == QuotDigit(Norm(<<a[i]>> \o st[2]), d)
         IN  IF gr[1] >= 0
             THEN DivFrom(a, d, i - 1, <<<<gr[1]>> \o st[1], gr[2]>>)
             ELSE st

\* divmod(a, d) for d > 0; both are scaled so that the top limb of d is full.
NatDivMod(a, d) ==
    LET sh == 15 - SmallBits(d[Len(d)])
        qr == DivFrom(NatShl(a, sh), NatShl(d, sh), Len(NatShl(a, sh)), <<<<>>, <<>>>>)
    IN  <<qr[1], NatShr(qr[2], sh)>>

(***************************************************************************)
(* Python float (binary64).  A finite non-zero value is m * 2^e with       *)
(* 2^52 <= m < 2^53; the values of this model are non-negative and stay    *)
(* far from the exponent limits, so there is no sign and no subnormal.     *)
(***************************************************************************)
FZero == [k |-> "zero"]
FInf  == [k |-> "inf"]
FNaN  == [k |-> "nan"]
Fin(m, e) == [k |-> "fin", m |-> m, e |-> e]

MantBits == 52 + 1

\* n * 2^e rounded to 53 bits, ties to even; sticky says that n * 2^e is a
\* truncation of a larger value.
RoundNat(n, sticky, e) ==
    LET t == BitLen(n) - MantBits
    IN  IF t <= 0 THEN Fin(NatShl(n, -t), e + t)
        ELSE LET hi   == NatShr(n, t)
                 low  == NatSub(n, NatShl(hi, t))
                 c    == NatCmp(low, NatShl(<<1>>, t - 1))
                 up   == c > 0 \/ (c = 0 /\ (sticky \/ NatOdd(hi)))
                 m    == IF up THEN NatAdd(hi, <<1>>) ELSE hi
             IN  IF BitLen(m) > MantBits
                 THEN Fin(NatShr(m, 1), e + t + 1)
                 ELSE Fin(m, e + t)

\* (n / d) * 2^e correctly rounded, for n > 0 and d > 0
RoundQuot(n, d, e) ==
    LET s  == MantBits + 2 + BitLen(d) - BitLen(n)
        a  == IF s >= 0 THEN NatShl(n, s) ELSE n
        dd == IF s >= 0 THEN d ELSE NatShl(d, -s)
        qr == NatDivMod(a, dd)
    IN  RoundNat(qr[1], qr[2] # <<>>, e - s)


(***************************************************************************)
(* Python values: results of an evaluation that may raise, None, and the   *)
(* exception classes this program meets with their base classes.           *)
(***************************************************************************)
None == [k |-> "None"]
Ok(v) == [ok |-> TRUE, v |-> v]
Raise(exc) == [ok |-> FALSE, exc |-> exc]

Bases(cls) ==
    CASE cls = "ZeroDivisionError"  -> {"ArithmeticError", "Exception"}
      [] cls = "KeyError"           -> {"LookupError", "Exception"}
      [] cls = "HTTPError"          -> {"RequestException", "OSError", "Exception"}
      [] cls = "StreamError"        -> {"ConstructError", "Exception"}
      [] cls = "SolanaRpcException" -> {"Exception"}
      [] cls = "AttributeError"     -> {"Exception"}
      [] cls = "ValueError"         -> {"Exception"}
      [] OTHER                      -> {}

IsInstance(exc, cls) == exc = cls \/ cls \in Bases(exc)

\* int / int
IntTrueDiv(a, b) ==
    IF b = <<>> THEN Raise("ZeroDivisionError")
    ELSE IF a = <<>> THEN Ok(FZero)
    ELSE Ok(RoundQuot(a, b, 0))

\* float(int)
IntToFloat(n) == IF n = <<>> THEN FZero ELSE RoundNat(n, FALSE, 0)

\* float / float as IEEE 754 divides, with no exception for a zero divisor.
FloatDivNoRaise(x, y) ==
    IF x.k = "nan" \/ y.k = "nan" THEN Ok(FNaN)
    ELSE IF y.k = "zero" THEN Ok(IF x.k = "zero" THEN FNaN ELSE FInf)
    ELSE IF x.k = "inf" THEN Ok(IF y.k = "inf" THEN FNaN ELSE FInf)
    ELSE IF y.k = "inf" \/ x.k = "zero" THEN Ok(FZero)
    ELSE Ok(RoundQuot(x.m, y.m, x.e - y.e))

\* float / float
FloatDiv(x, y) ==
    IF y.k = "zero" THEN Raise("ZeroDivisionError")
    ELSE IF x.k = "nan" \/ y.k = "nan" THEN Ok(FNaN)
    ELSE IF x.k = "inf" THEN Ok(IF y.k = "inf" THEN FNaN ELSE FInf)
    ELSE IF y.k = "inf" \/ x.k = "zero" THEN Ok(FZero)
    ELSE Ok(RoundQuot(x.m, y.m, x.e - y.e))

\* float * float
FloatMul(x, y) ==
    IF x.k = "nan" \/ y.k = "nan" THEN FNaN
    ELSE IF x.k = "inf" \/ y.k = "inf"
    THEN (IF x.k = "zero" \/ y.k = "zero" THEN FNaN ELSE FInf)
    ELSE IF x.k = "zero" \/ y.k = "zero" THEN FZero
    ELSE RoundNat(NatMul(x.m, y.m), FALSE, x.e + y.e)

(***************************************************************************)
(* Pubkeys.  A key is 32 raw bytes or the SHA-256 digest of a derivation,  *)
(* kept as the digest's input.  Whether a digest is a point of the curve   *)
(* is a property of the hash that the caller cannot choose: OnCurve fixes  *)
(* one outcome per mint of the model, among them the exhaustion of bumps.  *)
(***************************************************************************)
Bytes32(b) == [i \in 1..32 |-> b]
Pubkey(raw) == [k |-> "Pubkey", raw |-> raw]
Derived(seeds, bump, program) ==
    [k |-> "Pubkey", digest |-> [seeds |-> seeds, bump |-> bump, program |-> program]]

PGM_ID == Pubkey(Bytes32(78))
TOKEN_PROGRAM_ID == Pubkey(Bytes32(6))
ASSOCIATED_TOKEN_PROGRAM_ID == Pubkey(Bytes32(140))

MintA == Pubkey(Bytes32(1))
MintB == Pubkey(Bytes32(2))
MintC == Pubkey(Bytes32(3))
MintD == Pubkey(Bytes32(4))
Mints == {MintA, MintB, MintC, MintD}

\* The mint a derivation's seeds end in.
SeedMint(seeds) == seeds[Len(seeds)]

OnCurve(seeds, bump, program) ==
    LET m == SeedMint(seeds)
    IN  IF program = PGM_ID
        THEN (m = MintB /\ bump >= 254) \/ m = MintC
        ELSE (m = MintB /\ bump = 255) \/ m = MintD

\* Pubkey.find_program_address: the bumps from 255 down, the first whose
\* digest is off the curve; tried is how many bumps are on the curve before it.
find_program_address(seeds, program) ==
    LET tried == Cardinality({b \in 0..255 :
                     \A y \in b..255 : OnCurve(seeds, y, program)})
        bump  == 255 - tried
    IN  IF bump < 0 THEN Raise("Exception")
        ELSE Ok(<<Derived(seeds, bump, program), bump>>)

get_associated_token_address(owner, mint) ==
    LET r == find_program_address(<<owner, TOKEN_PROGRAM_ID, mint>>,
                                  ASSOCIATED_TOKEN_PROGRAM_ID)
    IN  IF r.ok THEN Ok(r.v[1]) ELSE r

\* _derive_bonding_curve_accounts: <<bc, atoken>>, <<None, None>> on any exception
derive_bonding_curve_accounts(self) ==
    LET r == find_program_address(<<"bonding-curve", self.mint>>, self.PGM_ID)
        a == get_associated_token_address(r.v[1], self.mint)
    IN  IF ~r.ok THEN <<None, None>>
        ELSE IF ~a.ok THEN <<None, None>>
        ELSE <<r.v[1], a.v>>

(***************************************************************************)
(* The construct layout of the bonding-curve account and Struct.parse.     *)
(***************************************************************************)
\* curve_layout with the two virtual reserves in the other order.
curve_layout_swapped == <<
    [name |-> "",                     con |-> "Padding", n |-> 8],
    [name |-> "virtualSolReserves",   con |-> "Int64ul", n |-> 8],
    [name |-> "virtualTokenReserves", con |-> "Int64ul", n |-> 8],
    [name |-> "realTokenReserves",    con |-> "Int64ul", n |-> 8],
    [name |-> "realSolReserves",      con |-> "Int64ul", n |-> 8],
    [name |-> "tokenTotalSupply",     con |-> "Int64ul", n |-> 8],
    [name |-> "complete",             con |-> "Flag",    n |-> 1],
    [name |-> "creator",              con |-> "Bytes",   n |-> 32] >>

curve_layout == <<
    [name |-> "",                     con |-> "Padding", n |-> 8],
    [name |-> "virtualTokenReserves", con |-> "Int64ul", n |-> 8],
    [name |-> "virtualSolReserves",   con |-> "Int64ul", n |-> 8],
    [name |-> "realTokenReserves",    con |-> "Int64ul", n |-> 8],
    [name |-> "realSolReserves",      con |-> "Int64ul", n |-> 8],
    [name |-> "tokenTotalSupply",     con |-> "Int64ul", n |-> 8],
    [name |-> "complete",             con |-> "Flag",    n |-> 1],
    [name |-> "creator",              con |-> "Bytes",   n |-> 32] >>

\* int.from_bytes(b, "little")
RECURSIVE IntFromLE(_)
IntFromLE(b) ==
    IF b = <<>> THEN <<>>
    ELSE NatAdd(NatMulSmall(IntFromLE(Tail(b)), 256), NatOf(b[1]))

\* SubconValue with a Flag that takes only the byte 1 for True.
SubconValueStrict(con, b) ==
    CASE con = "Int64ul" -> [k |-> "int",   v |-> IntFromLE(b)]
      [] con = "Flag"    -> [k |-> "bool",  v |-> b[1] = 1]
      [] con = "Bytes"   -> [k |-> "bytes", v |-> b]
      [] OTHER           -> None

\* The value a subconstruct builds from the bytes it read.
SubconValue(con, b) ==
    CASE con = "Int64ul" -> [k |-> "int",   v |-> IntFromLE(b)]
      [] con = "Flag"    -> [k |-> "bool",  v |-> b[1] # 0]
      [] con = "Bytes"   -> [k |-> "bytes", v |-> b]
      [] OTHER           -> None

\* ParseFrom that ends at a short read with the fields read so far.
RECURSIVE ParseFromPartial(_, _, _, _, _)
ParseFromPartial(layout, data, i, pos, ctx) ==
    IF i > Len(layout) THEN Ok(ctx)
    ELSE LET sc == layout[i]
         IN  IF pos + sc.n > Len(data) THEN Ok(ctx)
             ELSE LET b == SubSeq(data, pos + 1, pos + sc.n)
                  IN  ParseFromPartial(layout, data, i + 1, pos + sc.n,
                                       IF sc.name = "" THEN ctx
                                       ELSE (sc.name :> SubconValue(sc.con, b)) @@ ctx)

\* Struct._parse: the subconstructs in order on one stream; a read past the
\* end of the stream raises StreamError and the fields read so far are lost.
RECURSIVE ParseFrom(_, _, _, _, _)
ParseFrom(layout, data, i, pos, ctx) ==
    IF i > Len(layout) THEN Ok(ctx)
    ELSE LET sc == layout[i]
         IN  IF pos + sc.n > Len(data) THEN Raise("StreamError")
             ELSE LET b == SubSeq(data, pos + 1, pos + sc.n)
                  IN  ParseFrom(layout, data, i + 1, pos + sc.n,
                                IF sc.name = "" THEN ctx
                                ELSE (sc.name :> SubconValue(sc.con, b)) @@ ctx)

EmptyContainer == [f \in {} |-> None]

StructParse(layout, data) == ParseFrom(layout, data, 1, 0, EmptyContainer)


(***************************************************************************)
(* The methods of PumpFunMarketCap between two calls of a collaborator.    *)
(***************************************************************************)
Caught(r) == ~r.ok /\ IsInstance(r.exc, "Exception")

\* _get_virtual_reserves, given what client.get_account_info answered:
\* the parsed Container, or None on any exception.
get_virtual_reserves(self, info) ==
    IF info.k = "raises" THEN None
    ELSE IF info.value = None THEN None
    ELSE LET r == StructParse(self.curve_layout, info.value.data)
         IN  IF Caught(r) THEN None ELSE r.v

\* Whether _get_virtual_reserves reaches _curve_layout.parse.
ParseInvoked(info) == info.k = "info" /\ info.value # None

\* The BondingCurveData of _get_bonding_curve_data.
BondingCurveData(self, bc, atoken, vr) ==
    [k |-> "BondingCurveData",
     mint |-> self.mint,
     bonding_curve |-> bc,
     associated_bonding_curve |-> atoken,
     virtual_token_reserves |-> vr.virtualTokenReserves.v,
     virtual_sol_reserves |-> vr.virtualSolReserves.v,
     token_total_supply |-> vr.tokenTotalSupply.v,
     complete |-> vr.complete.v,
     creator |-> Pubkey(vr.creator.v)]

\* _get_sol_price_usd, given what requests.get answered.
get_sol_price_usd(resp) == IF resp.k = "raises" THEN Raise(resp.exc) ELSE Ok(resp.price)

\* The exception get_market_cap raises when there is no bonding curve data.
NoCurveData(self) ==
    [k |-> "raise", exc |-> "ValueError",
     msg |-> <<"Could not fetch bonding curve data for mint: ", self.mint>>]

SolDecimals == 9

\* 10 ** 9
TenPow9 == Pow10(SolDecimals)

\* MarketCapArith with the SOL reserve scaled by token_decimals, not by 9.
MarketCapArithTokenScale(bc_data, sol_usd, total_supply, token_decimals) ==
    LET sol_reserve   == IntTrueDiv(bc_data.virtual_sol_reserves,
                                    Pow10(token_decimals))
        token_reserve == IntTrueDiv(bc_data.virtual_token_reserves,
                                    Pow10(token_decimals))
        token_price_sol == FloatDiv(sol_reserve.v, token_reserve.v)
        token_price_usd == FloatMul(token_price_sol.v, sol_usd)
        market_cap_usd  == FloatMul(token_price_usd, IntToFloat(total_supply))
    IN  IF ~token_price_sol.ok
        THEN [sol_reserve |-> sol_reserve.v, token_reserve |-> token_reserve.v,
              outcome |-> [k |-> "raise", exc |-> token_price_sol.exc, msg |-> <<>>]]
        ELSE [sol_reserve |-> sol_reserve.v, token_reserve |-> token_reserve.v,
              outcome |-> [k |-> "return",
                           v |-> [token_price_sol |-> token_price_sol.v,
                                  token_price_usd |-> token_price_usd,
                                  market_cap_usd  |-> market_cap_usd]]]

\* MarketCapArith with the supply read from the account, not from the argument.
MarketCapArithChainSupply(bc_data, sol_usd, total_supply, token_decimals) ==
    LET sol_reserve   == IntTrueDiv(bc_data.virtual_sol_reserves, TenPow9)
        token_reserve == IntTrueDiv(bc_data.virtual_token_reserves,
                                    Pow10(token_decimals))
        token_price_sol == FloatDiv(sol_reserve.v, token_reserve.v)
        token_price_usd == FloatMul(token_price_sol.v, sol_usd)
        market_cap_usd  == FloatMul(token_price_usd, IntToFloat(bc_data.token_total_supply))
    IN  IF ~token_price_sol.ok
        THEN [sol_reserve |-> sol_reserve.v, token_reserve |-> token_reserve.v,
              outcome |-> [k |-> "raise", exc |-> token_price_sol.exc, msg |-> <<>>]]
        ELSE [sol_reserve |-> sol_reserve.v, token_reserve |-> token_reserve.v,
              outcome |-> [k |-> "return",
                           v |-> [token_price_sol |-> token_price_sol.v,
                                  token_price_usd |-> token_price_usd,
                                  market_cap_usd  |-> market_cap_usd]]]

\* The arithmetic of get_market_cap: the locals it binds, then what it
\* returns or raises.
MarketCapArith(bc_data, sol_usd, total_supply, token_decimals) ==
    LET sol_reserve   == IntTrueDiv(bc_data.virtual_sol_reserves, TenPow9)
        token_reserve == IntTrueDiv(bc_data.virtual_token_reserves,
                                    Pow10(token_decimals))
        token_price_sol == FloatDiv(sol_reserve.v, token_reserve.v)
        token_price_usd == FloatMul(token_price_sol.v, sol_usd)
        market_cap_usd  == FloatMul(token_price_usd, IntToFloat(total_supply))
    IN  IF ~token_price_sol.ok
        THEN [sol_reserve |-> sol_reserve.v, token_reserve |-> token_reserve.v,
              outcome |-> [k |-> "raise", exc |-> token_price_sol.exc, msg |-> <<>>]]
        ELSE [sol_reserve |-> sol_reserve.v, token_reserve |-> token_reserve.v,
              outcome |-> [k |-> "return",
                           v |-> [token_price_sol |-> token_price_sol.v,
                                  token_price_usd |-> token_price_usd,
                                  market_cap_usd  |-> market_cap_usd]]]

(***************************************************************************)
(* State.  inst is the PumpFunMarketCap object, calls the frames of the    *)
(* get_market_cap calls made on it, codec one parse of the layout.         *)
(***************************************************************************)
VARIABLES inst, calls, codec

vars == <<inst, calls, codec>>

NCalls == 2
Callers == 1..NCalls

IdleFrame ==
    [pc |-> "idle", args |-> None, bc |-> None, atoken |-> None, info |-> None,
     bc_data |-> None, quote |-> None, locals |-> None, outcome |-> None,
     log |-> <<>>, overlap |-> FALSE]

IdleCodec == [pc |-> "idle", data |-> <<>>, out |-> None]

\* __init__
NewInstance(mint) ==
    [client |-> [k |-> "rpc"], mint |-> mint, PGM_ID |-> PGM_ID,
     curve_layout |-> curve_layout]

\* History, not program state: log is the stages a call has entered, overlap
\* whether another call was between its first and last step at one of its own.
Overlapped(c) == \E o \in Callers \ {c} : calls[o].pc \in {"fetch", "quote"}

Enter(f, c, stages) ==
    [f EXCEPT !.log = @ \o stages, !.overlap = @ \/ Overlapped(c)]

\* get_market_cap(total_supply, token_decimals) up to client.get_account_info:
\* the derivation of the two addresses.
Call(c, a) ==
    /\ calls[c].pc = "idle"
    /\ LET d == derive_bonding_curve_accounts(inst)
           f == Enter(calls[c], c, <<"derive">>)
       IN  calls' = [calls EXCEPT ![c] =
               IF d[1] = None \/ d[2] = None
               THEN [f EXCEPT !.pc = "done", !.args = a, !.outcome = NoCurveData(inst)]
               ELSE [f EXCEPT !.pc = "fetch", !.args = a, !.bc = d[1], !.atoken = d[2]]]
    /\ UNCHANGED <<inst, codec>>

\* AccountInfo that asks for the account again when it got no reserves.
AccountInfoRetry(c, info) ==
    /\ calls[c].pc = "fetch"
    /\ LET vr == get_virtual_reserves(inst, info)
           f  == Enter(calls[c], c, <<"fetch">> \o (IF ParseInvoked(info)
                                                    THEN <<"decode">> ELSE <<>>))
       IN  calls' = [calls EXCEPT ![c] =
               IF vr = None
               THEN [f EXCEPT !.pc = IF Len(f.log) > 4 THEN "done" ELSE "fetch",
                              !.info = info, !.outcome = NoCurveData(inst)]
               ELSE [f EXCEPT !.pc = "quote", !.info = info,
                              !.bc_data = BondingCurveData(inst, f.bc, f.atoken, vr)]]
    /\ UNCHANGED <<inst, codec>>

\* AccountInfo that keeps the reserves it parsed on the object.
AccountInfoShared(c, info) ==
    /\ calls[c].pc = "fetch"
    /\ LET vr == get_virtual_reserves(inst, info)
           f  == Enter(calls[c], c, <<"fetch">> \o (IF ParseInvoked(info)
                                                    THEN <<"decode">> ELSE <<>>))
       IN  /\ calls' = [calls EXCEPT ![c] =
                 IF vr = None
                 THEN [f EXCEPT !.pc = "done", !.info = info, !.outcome = NoCurveData(inst)]
                 ELSE [f EXCEPT !.pc = "quote", !.info = info,
                                !.bc_data = BondingCurveData(inst, f.bc, f.atoken, vr)]]
           /\ inst' = [inst EXCEPT !.client = [k |-> "rpc", last |-> vr]]
    /\ UNCHANGED codec

\* From the answer info of client.get_account_info to requests.get.
AccountInfo(c, info) ==
    /\ calls[c].pc = "fetch"
    /\ LET vr == get_virtual_reserves(inst, info)
           f  == Enter(calls[c], c, <<"fetch">> \o (IF ParseInvoked(info)
                                                    THEN <<"decode">> ELSE <<>>))
       IN  calls' = [calls EXCEPT ![c] =
               IF vr = None
               THEN [f EXCEPT !.pc = "done", !.info = info, !.outcome = NoCurveData(inst)]
               ELSE [f EXCEPT !.pc = "quote", !.info = info,
                              !.bc_data = BondingCurveData(inst, f.bc, f.atoken, vr)]]
    /\ UNCHANGED <<inst, codec>>

\* From the answer resp of requests.get to the end of get_market_cap.
Quote(c, resp) ==
    /\ calls[c].pc = "quote"
    /\ LET p == get_sol_price_usd(resp)
           r == MarketCapArith(calls[c].bc_data, p.v, calls[c].args.total_supply,
                               calls[c].args.token_decimals)
       IN  calls' = [calls EXCEPT ![c] =
               IF ~p.ok
               THEN [Enter(@, c, <<"quote">>) EXCEPT
                         !.pc = "done", !.quote = resp,
                         !.outcome = [k |-> "raise", exc |-> p.exc, msg |-> <<>>]]
               ELSE [Enter(@, c, <<"quote", "compute">>) EXCEPT
                         !.pc = "done", !.quote = resp,
                         !.locals = [sol_reserve |-> r.sol_reserve,
                                     token_reserve |-> r.token_reserve],
                         !.outcome = r.outcome]]
    /\ UNCHANGED <<inst, codec>>

\* self._curve_layout.parse(data) on its own.
Parse ==
    /\ codec.pc = "ready"
    /\ codec' = [codec EXCEPT !.pc = "parsed",
                              !.out = StructParse(inst.curve_layout, codec.data)]
    /\ UNCHANGED <<inst, calls>>

(***************************************************************************)
(* What the collaborators may answer and what a caller may pass.           *)
(***************************************************************************)
\* n.to_bytes(k, "little")
RECURSIVE LEBytes(_, _)
LEBytes(n, k) ==
    IF k = 0 THEN <<>>
    ELSE LET qr == NatDivMod(n, <<256>>)
         IN  <<IF qr[2] = <<>> THEN 0 ELSE qr[2][1]>> \o LEBytes(qr[1], k - 1)

\* An account as the bonding-curve program writes it, rest being what
\* follows the creator.
CurveAccount(hdr, vt, vs, rt, rs, supply, flag, creator, rest) ==
    [i \in 1..8 |-> hdr] \o LEBytes(vt, 8) \o LEBytes(vs, 8) \o LEBytes(rt, 8)
    \o LEBytes(rs, 8) \o LEBytes(supply, 8) \o <<flag>> \o Bytes32(creator) \o rest

E9 == Pow10(9)
E15 == Pow10(15)
U64Max == NatSub(NatShl(<<1>>, 64), <<1>>)

\* 30 SOL against 1,000,000,000 tokens, open curve
AcctScenario == CurveAccount(23, E15, NatMulSmall(E9, 30), NatMulSmall(E9, 793),
                             <<>>, E15, 0, 11, <<>>)
\* the same virtual reserves, everything else different, curve complete
AcctScenarioAlt == CurveAccount(0, E15, NatMulSmall(E9, 30), <<>>,
                                NatMulSmall(E9, 85), NatOf(123456789), 1, 200, <<9>>)
\* no virtual tokens
AcctZero == CurveAccount(23, <<>>, NatMulSmall(E9, 30), <<>>, <<>>, E15, 0, 11, <<>>)
\* reserves whose quotients no float holds
AcctOdd == CurveAccount(23, NatAdd(NatMulSmall(E15, 1073), NatOf(191)),
                        NatAdd(NatMulSmall(E9, 30), NatOf(7)), E15, E9, E15, 0, 11, <<>>)
\* the largest reserves and no SOL
AcctMax == CurveAccount(255, U64Max, <<>>, U64Max, <<>>, U64Max, 1, 255, <<>>)
\* an account of zero bytes only
AcctEmpty == [i \in 1..81 |-> 0]
\* an account one byte too short
AcctShort == SubSeq(AcctScenario, 1, Len(AcctScenario) - 1)

InfoRaises == [k |-> "raises", exc |-> "SolanaRpcException"]
InfoAbsent == [k |-> "info", value |-> None]
InfoOf(d) == [k |-> "info", value |-> [k |-> "Account", data |-> d]]

AccountInfos ==
    {InfoRaises, InfoAbsent}
    \cup {InfoOf(d) : d \in {AcctScenario, AcctScenarioAlt, AcctZero, AcctOdd,
                             AcctMax, AcctEmpty, AcctShort}}

Quote150 == IntToFloat(NatOf(150))
Quote143 == IntTrueDiv(NatOf(14327), NatOf(100)).v
QuoteOk(x) == [k |-> "json", price |-> x]
QuoteRaises(exc) == [k |-> "raises", exc |-> exc]

QuoteResponses ==
    {QuoteRaises("HTTPError"), QuoteRaises("KeyError"),
     QuoteOk(Quote150), QuoteOk(Quote143), QuoteOk(FInf), QuoteOk(FNaN)}

DefaultArgs == [total_supply |-> E9, token_decimals |-> 6]
OtherArgs == [total_supply |-> NatOf(21000000), token_decimals |-> 9]
Args == {DefaultArgs, OtherArgs}

\* The smaller choice for calls that run side by side.
ConcInfos == {InfoAbsent, InfoOf(AcctShort), InfoOf(AcctScenario), InfoOf(AcctScenarioAlt)}
ConcQuotes == {QuoteRaises("HTTPError"), QuoteOk(Quote150)}

\* The buffers handed to a bare parse: every prefix of accounts with each
\* kind of flag byte and up to MaxTrailing bytes after the creator.
MaxTrailing == 2
Trailing == [i \in 1..MaxTrailing |-> 100 + i]
CodecAccounts ==
    {AcctScenario \o Trailing,
     AcctOdd,
     CurveAccount(255, U64Max, <<1>>, NatOf(256), NatShl(<<1>>, 63), U64Max, 1, 255, Trailing),
     CurveAccount(1, <<2>>, <<3>>, <<4>>, <<5>>, <<6>>, 2, 7, <<>>),
     CurveAccount(0, E9, E15, E9, E15, E9, 255, 0, Trailing),
     CurveAccount(9, E15, E9, <<>>, <<>>, E15, 128, 33, <<>>)}
CodecBuffers == UNION {{SubSeq(b, 1, n) : n \in 0..Len(b)} : b \in CodecAccounts}

(***************************************************************************)
(* Specifications: one call with every answer, NCalls calls side by side   *)
(* with fewer answers, and the parse alone.                                *)
(***************************************************************************)
Init ==
    /\ inst \in {NewInstance(m) : m \in Mints}
    /\ calls = [c \in Callers |-> IdleFrame]
    /\ codec = IdleCodec

Next ==
    \/ \E a \in Args : Call(1, a)
    \/ \E info \in AccountInfos : AccountInfo(1, info)
    \/ \E resp \in QuoteResponses : Quote(1, resp)

Spec == Init /\ [][Next]_vars

NextConc ==
    \E c \in Callers :
        \/ Call(c, DefaultArgs)
        \/ \E info \in ConcInfos : AccountInfo(c, info)
        \/ \E resp \in ConcQuotes : Quote(c, resp)

SpecConc == Init /\ [][NextConc]_vars

InitDecode ==
    /\ inst = NewInstance(MintA)
    /\ calls = [c \in Callers |-> IdleFrame]
    /\ codec \in {[pc |-> "ready", data |-> b, out |-> None] : b \in CodecBuffers}

NextDecode == Parse

SpecDecode == InitDecode /\ [][NextDecode]_vars

(***************************************************************************)
(* Properties of the parse (SpecDecode).  Offsets count bytes from 0, TLA+ *)
(* sequences from 1: the byte at offset 48 is data[49].                    *)
(***************************************************************************)
FieldNames ==
    {"virtualTokenReserves", "virtualSolReserves", "realTokenReserves",
     "realSolReserves", "tokenTotalSupply", "complete", "creator"}

Parsed == codec.pc = "parsed"

\* The unsigned little-endian integer of the 8 bytes at offset o, as the sum
\* of its bytes times their powers of 256.
RECURSIVE SumLE(_, _, _)
SumLE(data, o, i) ==
    IF i = 8 THEN <<>>
    ELSE NatAdd(NatShl(NatOf(data[o + i + 1]), 8 * i), SumLE(data, o, i + 1))

U64At(data, o) == [k |-> "int", v |-> SumLE(data, o, 0)]

\* C3: parsing a buffer of 0..80 bytes raises the stream error of a short
\* read, and a parse that returns a record returns all seven fields.
C3_ShortBufferFails ==
    Parsed =>
        /\ Len(codec.data) < 81 => codec.out = Raise("StreamError")
        /\ codec.out.ok => DOMAIN codec.out.v = FieldNames

C3_Witness == Parsed /\ Len(codec.data) = 80 /\ ~codec.out.ok

\* C4 as claimed: a flag byte other than 0 and 1 fails the parse of a buffer
\* of at least 81 bytes, and complete is true only for the byte 1.
C4_StrictFlag ==
    (Parsed /\ Len(codec.data) >= 81) =>
        /\ codec.data[49] \notin {0, 1} => ~codec.out.ok
        /\ codec.out.ok => (codec.out.v.complete.v <=> codec.data[49] = 1)

\* C4 as amended: a buffer of at least 81 bytes parses whatever its flag
\* byte, complete being false for the byte 0 and true for every other byte.
C4_LenientFlag ==
    (Parsed /\ Len(codec.data) >= 81) =>
        /\ codec.out.ok
        /\ codec.out.v.complete = [k |-> "bool", v |-> codec.data[49] # 0]

C4_Witness ==
    /\ Parsed /\ Len(codec.data) >= 81 /\ codec.data[49] = 128
    /\ codec.out.ok /\ codec.out.v.complete.v

\* C5: the record parsed from a buffer of at least 81 bytes is the five
\* little-endian 64-bit integers at offsets 8, 16, 24, 32, 40, the flag at 48
\* and the 32 bytes at 49..80: nothing of it comes from bytes 0..7 or from
\* bytes past 80.
C5_FixedOffsets ==
    (Parsed /\ Len(codec.data) >= 81) =>
        /\ codec.out.ok
        /\ codec.out.v =
             [virtualTokenReserves |-> U64At(codec.data, 8),
              virtualSolReserves   |-> U64At(codec.data, 16),
              realTokenReserves    |-> U64At(codec.data, 24),
              realSolReserves      |-> U64At(codec.data, 32),
              tokenTotalSupply     |-> U64At(codec.data, 40),
              complete             |-> [k |-> "bool", v |-> codec.data[49] # 0],
              creator              |-> [k |-> "bytes", v |-> SubSeq(codec.data, 50, 81)]]

C5_Witness ==
    /\ Parsed /\ Len(codec.data) > 81 /\ codec.data[1] # 0 /\ codec.out.ok
    /\ codec.out.v.virtualTokenReserves.v = U64Max
    /\ codec.out.v.virtualSolReserves.v = <<1>>

(***************************************************************************)
(* Properties of one call (Spec).                                          *)
(***************************************************************************)
Stages == <<"derive", "fetch", "decode", "quote", "compute">>

Done(c) == calls[c].pc = "done"
Raised(c) == Done(c) /\ calls[c].outcome.k = "raise"
Returned(c) == Done(c) /\ calls[c].outcome.k = "return"
Entered(c, stage) == \E i \in 1..Len(calls[c].log) : calls[c].log[i] = stage

\* C1 as claimed: a call whose account reader reports the account absent, or
\* fails to read it, raises a LookupError and enters neither the decode nor
\* the quote stage.
C1_MissingAccountLookupError ==
    \A c \in Callers :
        (Done(c) /\ calls[c].info \in {InfoAbsent, InfoRaises}) =>
            /\ Raised(c) /\ IsInstance(calls[c].outcome.exc, "LookupError")
            /\ ~Entered(c, "decode") /\ ~Entered(c, "quote")

\* C2: a call whose record has no virtual token reserves never returns, and
\* once it has a quote it raises an ArithmeticError, whatever the SOL
\* reserves, the quote and the arguments.
C2_ZeroReserveRaises ==
    \A c \in Callers :
        (Done(c) /\ calls[c].bc_data # None
                 /\ calls[c].bc_data.virtual_token_reserves = <<>>) =>
            /\ Raised(c)
            /\ calls[c].quote.k = "json" =>
                   IsInstance(calls[c].outcome.exc, "ArithmeticError")

C2_Witness ==
    \E c \in Callers :
        /\ Raised(c) /\ calls[c].outcome.exc = "ZeroDivisionError"
        /\ calls[c].bc_data.virtual_token_reserves = <<>>
        /\ calls[c].bc_data.virtual_sol_reserves # <<>>
        /\ calls[c].quote = QuoteOk(FInf)

\* C7: the stages a call has entered are a prefix of derive, fetch, decode,
\* quote, compute, so each is entered at most once and in that order; a stage
\* is entered only after every earlier one succeeded, a failed stage is the
\* call's last, and a call that returns has entered all five.
C7_StageOrder ==
    \A c \in Callers :
        LET f == calls[c]
        IN  /\ Len(f.log) <= Len(Stages) /\ f.log = SubSeq(Stages, 1, Len(f.log))
            /\ Entered(c, "fetch") => f.bc # None /\ f.atoken # None
            /\ Entered(c, "decode") => f.info.k = "info" /\ f.info.value # None
            /\ Entered(c, "quote") => f.bc_data # None
            /\ Entered(c, "compute") => f.quote.k = "json"
            /\ Raised(c) <=> (Done(c) /\ f.log # Stages) \/
                             (f.log = Stages
                                /\ f.bc_data.virtual_token_reserves = <<>>)
            /\ Returned(c) => f.log = Stages
            /\ f.pc = "fetch" <=> f.log = <<"derive">> /\ f.bc # None /\ f.atoken # None
            /\ f.pc = "quote" <=> f.log = SubSeq(Stages, 1, 3) /\ f.bc_data # None

C7_Witness ==
    \E c \in Callers :
        /\ Returned(c) /\ calls[c].log = Stages
        /\ calls[c].info = InfoOf(AcctOdd) /\ calls[c].quote = QuoteOk(Quote143)

\* The value of a finite float as a fraction of two naturals.
Frac(x) ==
    IF x.k = "zero" THEN [n |-> <<>>, d |-> <<1>>]
    ELSE [n |-> NatShl(x.m, Max(x.e, 0)), d |-> NatShl(<<1>>, Max(-x.e, 0))]

FracMul(p, q) == [n |-> NatMul(p.n, q.n), d |-> NatMul(p.d, q.d)]
FracDiv(p, q) == [n |-> NatMul(p.n, q.d), d |-> NatMul(p.d, q.n)]

\* x is the float nearest to n / d (d > 0), the one with the even mantissa
\* when two are equally near: zero for n = 0, and otherwise a 53-bit mantissa
\* m and an exponent e with |m * 2^e - n / d| at most half the distance to the
\* next float on that side, which below a power of two is 2^(e-2) and
\* anywhere else 2^(e-1).  Both sides are scaled by d * 2^(-lo).
NearestTo(x, n, d) ==
    IF n = <<>> THEN x = FZero
    ELSE /\ x.k = "fin"
         /\ BitLen(x.m) = MantBits
         /\ LET lo    == IF x.e - 2 < 0 THEN x.e - 2 ELSE 0
                A     == NatShl(NatMul(x.m, d), x.e - lo)
                B     == NatShl(n, -lo)
                c     == NatCmp(A, B)
                diff  == IF c >= 0 THEN NatSub(A, B) ELSE NatSub(B, A)
                bound == IF c > 0 /\ x.m = NatShl(<<1>>, MantBits - 1)
                         THEN NatShl(d, x.e - 2 - lo)
                         ELSE NatShl(d, x.e - 1 - lo)
                r     == NatCmp(diff, bound)
            IN  r < 0 \/ (r = 0 /\ ~NatOdd(x.m))

\* The call of the arithmetic scenario: 30 SOL, 1,000,000,000 tokens of 6
\* decimals, a quote of 150 and a supply of 1,000,000,000.
Scenario(c) ==
    /\ calls[c].bc_data.virtual_sol_reserves = NatMulSmall(Pow10(9), 30)
    /\ calls[c].bc_data.virtual_token_reserves = Pow10(15)
    /\ calls[c].quote = QuoteOk(IntToFloat(NatOf(150)))
    /\ calls[c].args = [total_supply |-> Pow10(9), token_decimals |-> 6]

\* C6 as claimed: the scenario's market cap is 4500.
C6_Scenario4500 ==
    \A c \in Callers :
        (Returned(c) /\ Scenario(c)) =>
            calls[c].outcome.v.market_cap_usd = IntToFloat(NatOf(4500))

\* C6 as amended: in a call that returns, each of the five values is the
\* float nearest to the exact result of its operation on the values before
\* it, the SOL reserve being scaled by 10^9 whatever token_decimals is; a
\* quote that is not finite gives a market cap that is not finite; and the
\* scenario's market cap is 4500 - 2^-40, the float just below 4500.
C6_RoundedSteps ==
    \A c \in Callers :
        Returned(c) =>
            LET f   == calls[c]
                sr  == f.locals.sol_reserve
                tr  == f.locals.token_reserve
                v   == f.outcome.v
                q   == f.quote.price
                tps == FracDiv(Frac(sr), Frac(tr))
                tpu == FracMul(Frac(v.token_price_sol), Frac(q))
                mc  == FracMul(Frac(v.token_price_usd),
                               [n |-> f.args.total_supply, d |-> <<1>>])
            IN  /\ f.bc_data.virtual_token_reserves # <<>>
                /\ NearestTo(sr, f.bc_data.virtual_sol_reserves, Pow10(9))
                /\ NearestTo(tr, f.bc_data.virtual_token_reserves,
                             Pow10(f.args.token_decimals))
                /\ NearestTo(v.token_price_sol, tps.n, tps.d)
                /\ q.k \in {"fin", "zero"} =>
                       /\ NearestTo(v.token_price_usd, tpu.n, tpu.d)
                       /\ NearestTo(v.market_cap_usd, mc.n, mc.d)
                /\ q.k \in {"inf", "nan"} => v.market_cap_usd.k \in {"inf", "nan"}
                /\ Scenario(c) =>
                       v.market_cap_usd =
                           Fin(NatSub(NatShl(NatOf(4500), 40), <<1>>), -40)

C6_Witness ==
    \E c \in Callers :
        /\ Returned(c) /\ Scenario(c)
        /\ calls[c].locals.sol_reserve = IntToFloat(NatOf(30))
        /\ calls[c].locals.token_reserve = IntToFloat(Pow10(9))
        /\ calls[c].outcome.v.market_cap_usd.k = "fin"
        /\ calls[c].outcome.v.market_cap_usd # IntToFloat(NatOf(4500))

(***************************************************************************)
(* Properties of calls side by side on one object (SpecConc).              *)
(***************************************************************************)
\* The stage a finished call ended in.
LastStage(c) == calls[c].log[Len(calls[c].log)]

\* C8 as claimed: the error of a failed call identifies the stage that
\* failed, so two calls that failed in different stages raised different
\* errors.
C8_StageIdentified ==
    \A a, b \in Callers :
        (Raised(a) /\ Raised(b) /\ LastStage(a) # LastStage(b)) =>
            calls[a].outcome # calls[b].outcome

\* What get_market_cap gives on the object self, run on its own, when the
\* account reader answers info and the quote reader answers resp.
Alone(self, a, info, resp) ==
    LET d == derive_bonding_curve_accounts(self)
    IN  IF d[1] = None \/ d[2] = None THEN NoCurveData(self)
        ELSE LET vr == get_virtual_reserves(self, info)
             IN  IF vr = None THEN NoCurveData(self)
                 ELSE LET p == get_sol_price_usd(resp)
                      IN  IF ~p.ok THEN [k |-> "raise", exc |-> p.exc, msg |-> <<>>]
                          ELSE MarketCapArith(
                                   BondingCurveData(self, d[1], d[2], vr), p.v,
                                   a.total_supply, a.token_decimals).outcome

\* C9: no step of any call changes the object, and whatever the other calls
\* did in between, a finished call has the outcome it would have had alone
\* with the answers it got.
C9_Isolated ==
    /\ [][inst' = inst]_vars
    /\ [](\A c \in Callers :
              Done(c) => calls[c].outcome =
                             Alone(inst, calls[c].args, calls[c].info, calls[c].quote))

C9_Witness ==
    \E a, b \in Callers :
        /\ a # b /\ calls[a].overlap /\ calls[b].overlap
        /\ Returned(a) /\ Raised(b) /\ LastStage(b) = "decode"

\* C10: two calls that return, made with the same arguments and answered
\* with the same virtual reserves and the same quote, return the same three
\* values, whatever else their accounts hold.
C10_OnlyVirtualReserves ==
    \A a, b \in Callers :
        (/\ Returned(a) /\ Returned(b)
         /\ calls[a].args = calls[b].args
         /\ calls[a].quote = calls[b].quote
         /\ calls[a].bc_data.virtual_token_reserves
                = calls[b].bc_data.virtual_token_reserves
         /\ calls[a].bc_data.virtual_sol_reserves
                = calls[b].bc_data.virtual_sol_reserves) =>
            calls[a].outcome = calls[b].outcome

C10_Witness ==
    \E a, b \in Callers :
        /\ Returned(a) /\ Returned(b)
        /\ calls[a].info = InfoOf(AcctScenario)
        /\ calls[b].info = InfoOf(AcctScenarioAlt)
        /\ calls[a].bc_data.complete # calls[b].bc_data.complete
        /\ calls[a].bc_data.token_total_supply # calls[b].bc_data.token_total_supply
        /\ calls[a].bc_data.creator # calls[b].bc_data.creator
        /\ calls[a].outcome = calls[b].outcome

====
